---- MODULE Spec2Model ----
(***************************************************************************)
(* Booking and payment-verification workflows of src/lib/actions.ts.       *)
(*                                                                         *)
(* The store (bookings, payment ledger, notifications), the payment        *)
(* gateway, the mail sender and the calendar are collaborators of the      *)
(* module; their state is what the handlers read and write.  Every handler *)
(* is one action.  Its inputs, the outcome of the calendar call and the    *)
(* step at which a collaborator fails are chosen by the environment.       *)
(***************************************************************************)
EXTENDS Integers, Sequences, FiniteSets, TLC

VARIABLES
    adminSettings,   \* getAdminSettings(): razorpay keys, possibly not configured
    providers,       \* username -> provider document
    bookings,        \* booking id -> booking document (ids are 1..Len)
    orders,          \* orders created at the payment gateway
    ledger,          \* payment records written by createPaymentRecord
    notifications,   \* records written by addNotification
    emails,          \* messages handed to the mail sender
    call,            \* the handler invocation that produced this state
    result,          \* what that invocation returned, threw or redirected to
    verified,        \* history: <<orderId, paymentId>> pairs whose HMAC check matched
    paths,           \* history: booking id -> the payment path createBooking took
    now,             \* the date new Date() returns, as <<year, month, day>>
    applied,         \* history: the plan ids persisted by updateProvider, in order
    pending          \* handler invocations that have read and not yet written

vars == <<adminSettings, providers, bookings, orders, ledger, notifications,
          emails, call, result, verified, paths, now, applied, pending>>

----------------------------------------------------------------------------
(* Bounds of the model.                                                    *)

MaxBookings == 1

MaxLedger == 1

MaxApplications == 1

MaxRenewals == 3

MaxBlockedSlots == 3

MaxPayments == 2

MaxEmails == 3

MaxConcurrent == 2

MaxOverlapSlots == 2

----------------------------------------------------------------------------
(* Data the environment draws from.                                        *)

KeySecret == "s3cret"

KeyId == "rzp_key"

Usernames == {"asha"}

UnknownUsername == "nobody"

CustomerEmail == "cust@example.com"

ProviderEmail == "asha@example.com"

(* The provider's service-type catalogue: a paid service, a service whose  *)
(* price is configured but switched off, a service with no price, and a    *)
(* disabled service.                                                       *)
ServiceTypes ==
    << [id |-> "online",   name |-> "Consultation", enabled |-> TRUE,
        priceEnabled |-> TRUE,  price |-> 500],
       [id |-> "doorstep", name |-> "Home Visit",   enabled |-> TRUE,
        priceEnabled |-> FALSE, price |-> 300],
       [id |-> "shop",     name |-> "Walk-in",      enabled |-> TRUE,
        priceEnabled |-> FALSE],
       [id |-> "online",   name |-> "Legacy",       enabled |-> FALSE,
        priceEnabled |-> TRUE,  price |-> 200] >>

ServiceNames == {"Consultation", "Home Visit", "Walk-in", "Legacy", "Unlisted"}

PaymentMethods == {"online", "later"}

DateTimes == {600}

(* Submitted forms: every enabled service with every payment method, a    *)
(* disabled service, a service the provider does not list, a form the     *)
(* schema refuses and a form naming a provider that is not there.         *)
Forms ==
    [ schemaValid      : {TRUE},
      providerUsername : Usernames,
      serviceType      : {"Consultation", "Home Visit", "Walk-in"},
      paymentMethod    : PaymentMethods,
      dateTime         : DateTimes ]
    \cup
    [ schemaValid      : {TRUE},
      providerUsername : Usernames,
      serviceType      : {"Legacy", "Unlisted"},
      paymentMethod    : {"later"},
      dateTime         : DateTimes ]
    \cup
    { [ schemaValid |-> FALSE, providerUsername |-> "asha",
        serviceType |-> "Consultation", paymentMethod |-> "online",
        dateTime |-> 600 ],
      [ schemaValid |-> TRUE, providerUsername |-> UnknownUsername,
        serviceType |-> "Consultation", paymentMethod |-> "online",
        dateTime |-> 600 ] }

OrderIds == {"order_1", "order_2"}

PaymentIds == {"pay_1"}

WrongSecret == "guess"

(* Signatures a caller can present: the gateway's for any order and        *)
(* payment, and one computed without the secret.                           *)
Signatures ==
    { <<"hmac-sha256", k, o \o "|" \o p>> :
          k \in {KeySecret, WrongSecret}, o \in OrderIds, p \in PaymentIds }

Amounts == {500}

Responses ==
    [razorpay_order_id   : OrderIds,
     razorpay_payment_id : PaymentIds,
     razorpay_signature  : Signatures]

(* getPlan: the plans on offer; one trial plan leaves its length unset,    *)
(* the other sets it.                                                      *)
Plans ==
    [ trial    |-> [id |-> "trial", name |-> "Trial", price |-> 0,
                    duration |-> "trial"],
      trial14  |-> [id |-> "trial14", name |-> "Long Trial", price |-> 0,
                    duration |-> "trial", days |-> 14],
      monthly  |-> [id |-> "monthly", name |-> "Monthly", price |-> 499,
                    duration |-> "monthly"],
      yearly   |-> [id |-> "yearly", name |-> "Yearly", price |-> 4999,
                    duration |-> "yearly"],
      lifetime |-> [id |-> "lifetime", name |-> "Lifetime", price |-> 9999,
                    duration |-> "lifetime"] ]

PlanIds == DOMAIN Plans \cup {"retired"}

(* plan.days || 7                                                          *)
DefaultTrialDays == 7

(* What a caller passes as paymentDetails: with or without an amount, with *)
(* or without the gateway ids.                                             *)
PaymentDetails ==
    [razorpay_payment_id : {"pay_1", ""}, razorpay_order_id : {"order_1"},
     amount : {0, 499}]
    \cup
    [razorpay_payment_id : {"pay_1"}, razorpay_order_id : {""},
     amount : {499}]
    \cup
    [razorpay_payment_id : {""}, razorpay_order_id : {""}]

(* Purchases: any plan with any payment details for the provider, and one *)
(* for a provider that is not there.                                       *)
SubscriptionRequests ==
    [username : Usernames, planId : PlanIds, paymentDetails : PaymentDetails]
    \cup
    [username : {UnknownUsername}, planId : {"monthly"},
     paymentDetails : [razorpay_payment_id : {"pay_1"},
                       razorpay_order_id : {"order_1"}, amount : {499}]]

Today == <<2024, 1, 15>>

Dates == {Today, <<2024, 1, 31>>, <<2024, 3, 5>>}

(* Callbacks: for the provider any booking id up to one past the last,    *)
(* and one callback naming a provider that is not there.                   *)
VerifyRequests ==
    [ username  : Usernames,
      bookingId : 1..(MaxBookings + 1),
      resp      : [razorpay_order_id   : OrderIds,
                   razorpay_payment_id : PaymentIds,
                   razorpay_signature  : Signatures],
      amount    : Amounts ]
    \cup
    [ username  : {UnknownUsername},
      bookingId : {1},
      resp      : [razorpay_order_id   : OrderIds,
                   razorpay_payment_id : PaymentIds,
                   razorpay_signature  : Signatures],
      amount    : Amounts ]

(* What createGoogleCalendarEvent does when it is called.                  *)
CalendarOutcomes == {"throws", "event", "eventAndMeet"}

(* The awaited collaborator call of createBooking that fails, if any.      *)
CreateFailPoints ==
    {"none", "addBooking", "createOrder", "updateBooking", "addNotification",
     "customerEmail", "providerEmail"}

----------------------------------------------------------------------------
(* Helpers for documents with optional fields.                             *)

Has(doc, f) == f \in DOMAIN doc

EmptyDoc == [f \in {} |-> TRUE]

(* updateBooking / updateDoc: the given top-level fields replace the       *)
(* stored ones, the others stay.                                           *)
Merge(doc, update) ==
    [f \in DOMAIN doc \cup DOMAIN update |->
        IF f \in DOMAIN update THEN update[f] ELSE doc[f]]

(* Position of a step on a path of awaited calls; a step that is not on    *)
(* the path lies behind its end.                                           *)
Pos(path, step) ==
    IF \E i \in 1..Len(path) : path[i] = step
    THEN CHOOSE i \in 1..Len(path) : path[i] = step
    ELSE Len(path) + 1

(* The step ran to completion: no step up to it on the path failed.        *)
Done(path, step, failAt) == Pos(path, step) < Pos(path, failAt)

Completed(path, failAt) == Pos(path, failAt) = Len(path) + 1

Range(seq) == {seq[i] : i \in 1..Len(seq)}

----------------------------------------------------------------------------
(* The store.                                                              *)

GetProviderByUsername(username) ==
    IF username \in DOMAIN providers THEN <<providers[username]>> ELSE <<>>

GetBookingById(username, bookingId) ==
    IF /\ bookingId \in 1..Len(bookings)
       /\ bookings[bookingId].providerUsername = username
    THEN <<bookings[bookingId]>> ELSE <<>>

AddBooking(bks, booking, status) ==
    Append(bks, Merge(booking, [status |-> status]))

UpdateBooking(bks, bookingId, update) ==
    [bks EXCEPT ![bookingId] = Merge(@, update)]

----------------------------------------------------------------------------
(* createBooking                                                           *)

BookingSchemaSafeParse(form) == form.schemaValid

IsValidServiceLax(provider, serviceType) ==
    \E i \in 1..Len(provider.settings.serviceTypes) :
        provider.settings.serviceTypes[i].name = serviceType

IsValidService(provider, serviceType) ==
    \E i \in 1..Len(provider.settings.serviceTypes) :
        /\ provider.settings.serviceTypes[i].name = serviceType
        /\ provider.settings.serviceTypes[i].enabled

(* serviceTypes.find(st => st.name === data.serviceType)                   *)
FindServiceType(provider, serviceType) ==
    LET sts == provider.settings.serviceTypes
        i   == CHOOSE i \in 1..Len(sts) :
                   /\ sts[i].name = serviceType
                   /\ \A j \in 1..(i - 1) : sts[j].name # serviceType
    IN  sts[i]

FullAddress(provider, st) ==
    IF st.id = "doorstep" THEN "12, Near Park, Pune, MH - 411001, India"
    ELSE IF st.id = "shop" THEN provider.settings.shopAddress
    ELSE "Online"

IsPaidService(st) == st.priceEnabled /\ Has(st, "price") /\ st.price > 0

(* serviceTypeSetting?.price || 0                                          *)
PriceIfEnabled(st) ==
    IF st.priceEnabled /\ Has(st, "price") THEN st.price ELSE 0

PriceOrZero(st) == IF Has(st, "price") THEN st.price ELSE 0

GatewayAmountUnscaled(amount) == amount

(* createRazorpayOrder: options.amount = amount * 100                      *)
GatewayAmount(amount) == amount * 100

CreateRazorpayOrder(amount, currency, n) ==
    [id |-> "order_" \o ToString(n), amount |-> GatewayAmount(amount),
     currency |-> currency]

RazorpayConfigured ==
    Has(adminSettings, "keyId") /\ Has(adminSettings, "keySecret")

TakesOnlinePath(st, provider, form) ==
    /\ IsPaidService(st)
    /\ provider.settings.onlinePaymentEnabled
    /\ form.paymentMethod = "online"

PaymentDetailsText(st, provider, form) ==
    IF /\ IsPaidService(st)
       /\ provider.settings.payAfterServiceEnabled
       /\ form.paymentMethod = "later"
    THEN "To be paid after service."
    ELSE "This is a free booking."

NonOnlineBookingUpdatePaid(st) ==
    [status  |-> "Upcoming",
     payment |-> [status |-> "Paid", amount |-> PriceOrZero(st)]]

NonOnlineBookingUpdate(st) ==
    [status  |-> "Upcoming",
     payment |-> [status |-> "Pending", amount |-> PriceOrZero(st)]]

(* The fields the calendar call adds to the booking update.                *)
CalendarFields(provider, cal, bookingId) ==
    IF ~Has(provider, "googleCalendar") \/ cal = "throws"
    THEN EmptyDoc
    ELSE IF cal = "event"
    THEN [googleCalendarEventId |-> "evt_" \o ToString(bookingId)]
    ELSE [googleCalendarEventId |-> "evt_" \o ToString(bookingId),
          googleMeetLink        |-> "meet_" \o ToString(bookingId)]

NewBookingNotification(provider, bookingId, by) ==
    [to |-> provider.username, type |-> "new_booking", link |-> "/bookings",
     bookingId |-> bookingId, by |-> by]

ConfirmationEmail(to, bookingId, paymentDetails, by) ==
    [template |-> "bookingConfirmation", to |-> to, bookingId |-> bookingId,
     paymentDetails |-> paymentDetails, by |-> by]

ProviderEmailMsg(to, bookingId, paymentDetails, by) ==
    [template |-> "providerBookingNotification", to |-> to,
     bookingId |-> bookingId, paymentDetails |-> paymentDetails, by |-> by]

(* provider.settings.slotDuration || 60                                    *)
DefaultSlotDuration == 60

SlotDuration(settings) ==
    IF Has(settings, "slotDuration") /\ settings.slotDuration # 0
    THEN settings.slotDuration ELSE DefaultSlotDuration

(* date.toISOString(): the UTC wall-clock reading of the instant (instants *)
(* and readings in minutes), with separators, ending in the designator Z.  *)
ToISOString(instant) ==
    [format |-> "extended", wallClock |-> instant, designator |-> "Z"]

(* toGoogleISO: the same reading without separators and fraction, + 'Z'.   *)
ToGoogleISO(instant) ==
    [format |-> "basic", wallClock |-> ToISOString(instant).wallClock,
     designator |-> "Z"]

(* .slice(0, -1): the reading without its designator.                      *)
WithoutDesignator(stamp) ==
    [format |-> stamp.format, wallClock |-> stamp.wallClock]

(* Lines 164-171 and 314-321: the three calendar links of the customer's   *)
(* confirmation email.                                                     *)
CalendarLinks(dateTime, settings) ==
    LET startTime == dateTime
        endTime   == startTime + SlotDuration(settings)
    IN  [googleLink  |-> [dates |-> <<ToGoogleISO(startTime),
                                      ToGoogleISO(endTime)>>],
         outlookLink |-> [startdt |-> ToISOString(startTime),
                          enddt   |-> ToISOString(endTime)],
         icsLink     |-> [dtstart |-> [tzid  |-> settings.timezone,
                                       value |-> WithoutDesignator(
                                                     ToGoogleISO(startTime))],
                          dtend   |-> [tzid  |-> settings.timezone,
                                       value |-> WithoutDesignator(
                                                     ToGoogleISO(endTime))]]]

CalendarErrorPropagates(provider, cal) ==
    Has(provider, "googleCalendar") /\ cal = "throws"

(* The catch around createGoogleCalendarEvent (lines 132-134, 273-275)     *)
(* logs the error and goes on: no calendar error leaves the try.           *)
CalendarErrorEscapes(provider, cal) == FALSE

(* Which calendar outcome the invocation met: none when it made no call.  *)
CalendarSeen(provider, cal) ==
    IF Has(provider, "googleCalendar") THEN cal ELSE "notCalled"

NewBooking(form, provider, st) ==
    [customerEmail    |-> CustomerEmail,
     serviceType      |-> form.serviceType,
     dateTime         |-> form.dateTime,
     providerUsername |-> form.providerUsername,
     address          |-> FullAddress(provider, st)]

OnlinePath == <<"addBooking", "createOrder", "updateBooking">>

NonOnlinePath ==
    <<"addBooking", "createGoogleCalendarEvent", "updateBooking",
      "addNotification", "customerEmail", "providerEmail">>

(* A request refused before anything is persisted (lines 25-46).           *)
Rejected(form, res) ==
    /\ call' = [op |-> "createBooking", form |-> form, cal |-> "notCalled",
                failAt |-> "none"]
    /\ result' = res
    /\ UNCHANGED <<bookings, orders, ledger, notifications, emails, paths>>

(* Lines 103-106: create the gateway order and attach its id.              *)
CreateBookingOnlineCore(form, provider, st, failAt) ==
    LET bookingId == Len(bookings) + 1
        added     == AddBooking(bookings, NewBooking(form, provider, st),
                                "Pending")
        order     == CreateRazorpayOrder(st.price, "INR", Len(orders) + 1)
        fail      == IF ~RazorpayConfigured /\ Done(OnlinePath, "addBooking", failAt)
                     THEN "createOrder" ELSE failAt
    IN  /\ paths' = IF Done(OnlinePath, "addBooking", fail)
                    THEN Append(paths, "online") ELSE paths
        /\ call' = [op |-> "createBooking", form |-> form,
                    cal |-> "notCalled", failAt |-> failAt]
        /\ bookings' =
              IF Done(OnlinePath, "updateBooking", fail)
              THEN UpdateBooking(added, bookingId,
                                 [payment |-> [orderId |-> order.id]])
              ELSE IF Done(OnlinePath, "addBooking", fail) THEN added
              ELSE bookings
        /\ orders' = IF Done(OnlinePath, "createOrder", fail)
                     THEN Append(orders, order) ELSE orders
        /\ result' =
              IF Completed(OnlinePath, fail)
              THEN [kind |-> "order", order |-> order, bookingId |-> bookingId]
              ELSE [kind |-> "throw", at |-> fail]

CreateBookingOnlineNotifying(form, provider, st, failAt) ==
    /\ CreateBookingOnlineCore(form, provider, st, failAt)
    /\ notifications' =
          Append(notifications,
                 NewBookingNotification(provider, Len(bookings) + 1,
                     [op |-> "createBooking", hmacMatched |-> FALSE]))
    /\ UNCHANGED <<ledger, emails>>

(* The online path returns the order: no notification, no email.           *)
CreateBookingOnline(form, provider, st, failAt) ==
    /\ CreateBookingOnlineCore(form, provider, st, failAt)
    /\ UNCHANGED <<ledger, notifications, emails>>

(* Lines 107-209: confirm at once, notify, mail, redirect.                 *)
CreateBookingNonOnline(form, provider, st, cal, failed) ==
    LET failAt    == IF /\ CalendarErrorEscapes(provider, cal)
                        /\ Done(NonOnlinePath, "addBooking", failed)
                     THEN "createGoogleCalendarEvent" ELSE failed
        bookingId == Len(bookings) + 1
        added     == AddBooking(bookings, NewBooking(form, provider, st),
                                "Pending")
        details   == PaymentDetailsText(st, provider, form)
        update    == Merge(NonOnlineBookingUpdate(st),
                           CalendarFields(provider, cal, bookingId))
        by        == [op |-> "createBooking", hmacMatched |-> FALSE]
    IN  /\ paths' = IF Done(NonOnlinePath, "addBooking", failAt)
                    THEN Append(paths, "nonOnline") ELSE paths
        /\ call' = [op |-> "createBooking", form |-> form,
                    cal |-> IF Done(NonOnlinePath, "addBooking", failed)
                            THEN CalendarSeen(provider, cal) ELSE "notCalled",
                    failAt |-> failed]
        /\ bookings' =
              IF Done(NonOnlinePath, "updateBooking", failAt)
              THEN UpdateBooking(added, bookingId, update)
              ELSE IF Done(NonOnlinePath, "addBooking", failAt) THEN added
              ELSE bookings
        /\ notifications' =
              IF Done(NonOnlinePath, "addNotification", failAt)
              THEN Append(notifications,
                          NewBookingNotification(provider, bookingId, by))
              ELSE notifications
        /\ emails' =
              LET e1 == IF Done(NonOnlinePath, "customerEmail", failAt)
                        THEN Append(emails,
                                 Merge(ConfirmationEmail(CustomerEmail,
                                           bookingId, details, by),
                                       CalendarLinks(form.dateTime,
                                                     provider.settings)))
                        ELSE emails
              IN  IF Done(NonOnlinePath, "providerEmail", failAt)
                  THEN Append(e1, ProviderEmailMsg(provider.contact.email,
                                                   bookingId, details, by))
                  ELSE e1
        /\ result' =
              IF Completed(NonOnlinePath, failAt)
              THEN [kind |-> "redirect", to |-> "/confirmation",
                    bookingId |-> bookingId]
              ELSE [kind |-> "throw", at |-> failAt]
        /\ UNCHANGED <<orders, ledger>>

CreateBooking(form) ==
    /\ Len(bookings) < MaxBookings
    /\ UNCHANGED <<adminSettings, providers, verified, now, applied, pending>>
    /\ IF ~BookingSchemaSafeParse(form)
       THEN Rejected(form, [kind |-> "errors", field |-> "schema"])
       ELSE IF GetProviderByUsername(form.providerUsername) = <<>>
       THEN Rejected(form, [kind |-> "throw", at |-> "Provider not found."])
       ELSE LET provider == GetProviderByUsername(form.providerUsername)[1]
            IN  IF ~IsValidService(provider, form.serviceType)
                THEN Rejected(form, [kind |-> "errors", field |-> "serviceType"])
                ELSE LET st == FindServiceType(provider, form.serviceType)
                     IN  IF TakesOnlinePath(st, provider, form)
                         THEN \E failAt \in CreateFailPoints
                                            \cap ({"none"} \cup Range(OnlinePath)) :
                                 CreateBookingOnline(form, provider, st, failAt)
                         ELSE \E failAt \in CreateFailPoints
                                            \cap ({"none"} \cup Range(NonOnlinePath)),
                                 cal \in IF Has(provider, "googleCalendar")
                                         THEN CalendarOutcomes ELSE {"throws"} :
                                 CreateBookingNonOnline(form, provider, st, cal,
                                                        failAt)

----------------------------------------------------------------------------
(* verifyBookingPayment                                                    *)

(* crypto.createHmac('sha256', secret).update(body).digest('hex'): a       *)
(* keyed digest, modelled as collision-free in key and message.            *)
Hmac(secret, body) == <<"hmac-sha256", secret, body>>

(* body = razorpay_order_id + '|' + razorpay_payment_id                    *)
SignedBody(orderId, paymentId) == orderId \o "|" \o paymentId

ExpectedSignature(secret, orderId, paymentId) ==
    Hmac(secret, SignedBody(orderId, paymentId))

SignatureNotCompared(expected, supplied) == TRUE

(* expectedSignature !== razorpay_signature, negated                       *)
SignatureMatches(expected, supplied) == expected = supplied

PaymentData(resp, amount) ==
    [orderId |-> resp.razorpay_order_id,
     paymentId |-> resp.razorpay_payment_id,
     amount |-> amount, status |-> "Paid"]

BookingPaymentRecord(username, bookingId, resp, amount) ==
    [providerUsername |-> username, bookingId |-> bookingId,
     planId |-> "booking", amount |-> amount, currency |-> "INR",
     razorpay_payment_id |-> resp.razorpay_payment_id,
     razorpay_order_id |-> resp.razorpay_order_id]

PaidDetailsText(amount) == "Paid INR " \o ToString(amount) \o " Online"

PropagatedFailure(at) == [kind |-> "throw", at |-> at]

(* The catch of lines 359-362.                                             *)
CaughtFailure(at) ==
    [kind |-> "return", success |-> FALSE,
     error |-> "Failed to update booking after payment."]

VerifyPath ==
    <<"getBookingById", "createGoogleCalendarEvent", "updateBooking",
      "createPaymentRecord", "addNotification", "customerEmail",
      "providerEmail">>

(* The awaited collaborator call of verifyBookingPayment that fails.       *)
VerifyFailPoints ==
    {"none", "getBookingById", "updateBooking", "createPaymentRecord",
     "addNotification", "customerEmail", "providerEmail"}

(* Lines 227-237 and 359-362: a call that ends without touching the store. *)
VerifyUnchanged(c, res) ==
    /\ call' = c
    /\ result' = res
    /\ UNCHANGED <<bookings, ledger, notifications, emails>>

(* Lines 239-357, booking and provider found.                              *)
VerifyFinalize(username, bookingId, resp, amount, c, cal, failed) ==
    LET provider == GetProviderByUsername(username)[1]
        failAt   == IF CalendarErrorEscapes(provider, cal)
                    THEN "createGoogleCalendarEvent" ELSE failed
        booking  == GetBookingById(username, bookingId)[1]
        update   == Merge([status  |-> "Upcoming",
                           payment |-> PaymentData(resp, amount)],
                          CalendarFields(provider, cal, bookingId))
        details  == PaidDetailsText(amount)
        by       == [op |-> "verifyBookingPayment",
                     hmacMatched |-> c.hmacMatches]
    IN  /\ call' = Merge(c, [cal    |-> IF failed = "getBookingById"
                                        THEN "notCalled"
                                        ELSE CalendarSeen(provider, cal),
                             failAt |-> failed])
        /\ bookings' =
              IF Done(VerifyPath, "updateBooking", failAt)
              THEN UpdateBooking(bookings, bookingId, update) ELSE bookings
        /\ ledger' =
              IF Done(VerifyPath, "createPaymentRecord", failAt)
              THEN Append(ledger,
                          BookingPaymentRecord(username, bookingId, resp, amount))
              ELSE ledger
        /\ notifications' =
              IF Done(VerifyPath, "addNotification", failAt)
              THEN Append(notifications,
                          NewBookingNotification(provider, bookingId, by))
              ELSE notifications
        /\ emails' =
              LET e1 == IF Done(VerifyPath, "customerEmail", failAt)
                        THEN Append(emails,
                                 Merge(ConfirmationEmail(booking.customerEmail,
                                           bookingId, details, by),
                                       CalendarLinks(booking.dateTime,
                                                     provider.settings)))
                        ELSE emails
              IN  IF Done(VerifyPath, "providerEmail", failAt)
                  THEN Append(e1, ProviderEmailMsg(provider.contact.email,
                                                   bookingId, details, by))
                  ELSE e1
        /\ result' =
              IF Completed(VerifyPath, failAt)
              THEN [kind |-> "return", success |-> TRUE]
              ELSE CaughtFailure(failAt)

VerifyBookingPayment(username, bookingId, resp, amount) ==
    /\ UNCHANGED <<adminSettings, providers, orders, paths, now, applied,
                   pending>>
    /\ LET c == [op |-> "verifyBookingPayment", username |-> "unread",
                 bookingId |-> 0,
                 orderId |-> resp.razorpay_order_id,
                 paymentId |-> resp.razorpay_payment_id,
                 hmacMatches |-> FALSE, cal |-> "notCalled",
                 failAt |-> "none"]
       IN
       IF ~Has(adminSettings, "keySecret")
       THEN /\ VerifyUnchanged(c, [kind |-> "throw",
                        at |-> "Razorpay key secret is not configured."])
            /\ UNCHANGED verified
       ELSE
       LET expected == ExpectedSignature(adminSettings.keySecret,
                           resp.razorpay_order_id, resp.razorpay_payment_id)
           matches  == expected = resp.razorpay_signature
           cm       == [c EXCEPT !.hmacMatches = matches]
           cr       == [cm EXCEPT !.username = username,
                                  !.bookingId = bookingId]
       IN  /\ verified' =
                 IF matches
                 THEN verified \cup {<<resp.razorpay_order_id,
                                       resp.razorpay_payment_id>>}
                 ELSE verified
           /\ IF ~SignatureMatches(expected, resp.razorpay_signature)
              THEN VerifyUnchanged(cm,
                       [kind |-> "return", success |-> FALSE,
                        error |-> "Invalid payment signature."])
              ELSE IF \/ GetBookingById(username, bookingId) = <<>>
                      \/ GetProviderByUsername(username) = <<>>
              THEN \E failAt \in VerifyFailPoints \cap {"none", "getBookingById"} :
                      VerifyUnchanged([cr EXCEPT !.failAt = failAt],
                          CaughtFailure(
                              IF failAt = "none"
                              THEN "Booking or provider not found during verification."
                              ELSE failAt))
              ELSE \E failAt \in VerifyFailPoints,
                      cal \in IF Has(providers[username], "googleCalendar")
                              THEN CalendarOutcomes ELSE {"throws"} :
                      VerifyFinalize(username, bookingId, resp, amount, cr, cal,
                                     failAt)

----------------------------------------------------------------------------
(* Dates, as date-fns computes them on <<year, month, day>>.               *)

IsLeapYear(y) == (y % 4 = 0 /\ y % 100 # 0) \/ y % 400 = 0

DaysInMonth(y, m) ==
    IF m = 2 THEN (IF IsLeapYear(y) THEN 29 ELSE 28)
    ELSE IF m \in {4, 6, 9, 11} THEN 30 ELSE 31

DateBefore(a, b) ==
    \/ a[1] < b[1]
    \/ a[1] = b[1] /\ a[2] < b[2]
    \/ a[1] = b[1] /\ a[2] = b[2] /\ a[3] < b[3]

Min(a, b) == IF a < b THEN a ELSE b

(* addMonths: the same day of the target month, or its last day.           *)
AddMonths(date, n) ==
    LET months == (date[1] * 12 + (date[2] - 1)) + n
        y      == months \div 12
        m      == (months % 12) + 1
    IN  <<y, m, Min(date[3], DaysInMonth(y, m))>>

(* addYears(date, n) is addMonths(date, n * 12).                           *)
AddYears(date, n) == AddMonths(date, n * 12)

NextDay(date) ==
    IF date[3] < DaysInMonth(date[1], date[2])
    THEN <<date[1], date[2], date[3] + 1>>
    ELSE IF date[2] < 12 THEN <<date[1], date[2] + 1, 1>>
    ELSE <<date[1] + 1, 1, 1>>

RECURSIVE AddDays(_, _)
AddDays(date, n) == IF n = 0 THEN date ELSE AddDays(NextDay(date), n - 1)

(* new Date('9999-12-31')                                                  *)
LifetimeExpiry == <<9999, 12, 31>>

----------------------------------------------------------------------------
(* verifySubscriptionPaymentSignature                                      *)

VerifySubscriptionPaymentSignature(resp) ==
    /\ call' = [op |-> "verifySubscriptionPaymentSignature",
                orderId |-> resp.razorpay_order_id,
                paymentId |-> resp.razorpay_payment_id,
                hmacMatches |->
                    /\ Has(adminSettings, "keySecret")
                    /\ ExpectedSignature(adminSettings.keySecret,
                           resp.razorpay_order_id, resp.razorpay_payment_id)
                         = resp.razorpay_signature]
    /\ verified' =
          IF call'.hmacMatches
          THEN verified \cup {<<resp.razorpay_order_id,
                                resp.razorpay_payment_id>>}
          ELSE verified
    /\ result' =
          IF ~Has(adminSettings, "keySecret")
          THEN [kind |-> "throw",
                at |-> "Razorpay key secret is not configured."]
          ELSE IF ~SignatureMatches(
                      ExpectedSignature(adminSettings.keySecret,
                          resp.razorpay_order_id, resp.razorpay_payment_id),
                      resp.razorpay_signature)
          THEN [kind |-> "return", success |-> FALSE,
                error |-> "Invalid payment signature."]
          ELSE [kind |-> "return", success |-> TRUE]
    /\ UNCHANGED <<adminSettings, providers, bookings, orders, ledger,
                   notifications, emails, paths, now, applied, pending>>

----------------------------------------------------------------------------
(* updateProviderSubscription                                              *)

GetPlan(planId) == IF planId \in DOMAIN Plans THEN <<Plans[planId]>> ELSE <<>>

NeverRenewal(provider, today) == FALSE

(* !!(provider.planId && provider.planExpiry && provider.planExpiry > now) *)
IsRenewal(provider, today) ==
    /\ Has(provider, "planId")
    /\ Has(provider, "planExpiry")
    /\ DateBefore(today, provider.planExpiry)

BaseDateNow(provider, today) == today

BaseDateForExpiry(provider, today) ==
    IF IsRenewal(provider, today) THEN provider.planExpiry ELSE today

(* The switch of lines 435-450; the plan durations are these four.         *)
NewExpiryDate(plan, base) ==
    IF plan.duration = "monthly" THEN AddMonths(base, 1)
    ELSE IF plan.duration = "yearly" THEN AddYears(base, 1)
    ELSE IF plan.duration = "lifetime" THEN LifetimeExpiry
    ELSE AddDays(base, IF Has(plan, "days") /\ plan.days # 0
                       THEN plan.days ELSE DefaultTrialDays)

NeverUsedTrial(provider) == FALSE

HasUsedTrial(provider) ==
    Has(provider, "hasUsedTrial") /\ provider.hasUsedTrial

NotificationMessage(provider, plan, today) ==
    IF IsRenewal(provider, today)
    THEN IF /\ GetPlan(provider.planId) # <<>>
            /\ plan.price > GetPlan(provider.planId)[1].price
         THEN "upgraded" ELSE "renewed"
    ELSE "subscribed"

AmountGiven(paymentDetails) == Has(paymentDetails, "amount")

AmountPaid(paymentDetails) ==
    Has(paymentDetails, "amount") /\ paymentDetails.amount > 0

PaymentIdsGiven(paymentDetails) ==
    /\ paymentDetails.razorpay_payment_id # ""
    /\ paymentDetails.razorpay_order_id # ""

SubscriptionPaymentRecord(username, plan, paymentDetails) ==
    [providerUsername |-> username, planId |-> plan.id,
     amount |-> paymentDetails.amount, currency |-> "INR",
     razorpay_payment_id |-> paymentDetails.razorpay_payment_id,
     razorpay_order_id |-> paymentDetails.razorpay_order_id]

(* The catch of lines 491-494.                                             *)
SubscriptionFailure(message) ==
    [kind |-> "return", success |-> FALSE, error |-> message]

SubscriptionPathCheckingFirst ==
    <<"createPaymentRecord", "updateProvider", "addNotification",
      "sendSubscriptionEmail">>

SubscriptionPath ==
    <<"updateProvider", "createPaymentRecord", "addNotification",
      "sendSubscriptionEmail">>

(* The awaited collaborator call of updateProviderSubscription that fails. *)
SubscriptionFailPoints == {"none", "updateProvider", "addNotification"}

SubscriptionUnchanged(res) ==
    /\ result' = res
    /\ UNCHANGED <<providers, ledger, notifications, emails, applied>>

(* Lines 412-490: plan and provider found, trial not refused.              *)
ApplyPlan(username, provider, plan, paymentDetails, failed) ==
    LET isRenewal == IsRenewal(provider, now)
        expiry    == NewExpiryDate(plan, BaseDateForExpiry(provider, now))
        update    == [planId       |-> plan.id,
                      hasUsedTrial |-> HasUsedTrial(provider)
                                         \/ plan.duration = "trial",
                      planExpiry   |-> expiry]
        idsMissing == AmountPaid(paymentDetails)
                        /\ ~PaymentIdsGiven(paymentDetails)
        failAt    == IF idsMissing /\ Done(SubscriptionPath, "updateProvider", failed)
                     THEN "createPaymentRecord" ELSE failed
    IN  /\ providers' =
              IF Done(SubscriptionPath, "updateProvider", failAt)
              THEN [providers EXCEPT ![username] = Merge(@, update)]
              ELSE providers
        /\ applied' =
              IF Done(SubscriptionPath, "updateProvider", failAt)
              THEN Append(applied, plan.id) ELSE applied
        /\ ledger' =
              IF /\ AmountPaid(paymentDetails)
                 /\ Done(SubscriptionPath, "createPaymentRecord", failAt)
              THEN Append(ledger,
                      SubscriptionPaymentRecord(username, plan, paymentDetails))
              ELSE ledger
        /\ notifications' =
              IF Done(SubscriptionPath, "addNotification", failAt)
              THEN Append(notifications,
                      [to |-> "admin", type |-> "general",
                       link |-> "/admin/providers",
                       message |-> NotificationMessage(provider, plan, now)])
              ELSE notifications
        /\ emails' =
              IF Done(SubscriptionPath, "sendSubscriptionEmail", failAt)
              THEN Append(emails,
                      [template |-> "subscription",
                       to |-> provider.contact.email, plan |-> plan.name,
                       expiry |-> expiry, isRenewal |-> isRenewal])
              ELSE emails
        /\ result' =
              IF Completed(SubscriptionPath, failAt)
              THEN [kind |-> "return", success |-> TRUE,
                    provider |-> Merge(providers'[username], [plan |-> plan])]
              ELSE IF idsMissing /\ failAt # failed
              THEN SubscriptionFailure(
                       "Payment details are required for paid plans.")
              ELSE SubscriptionFailure(failAt)

UpdateProviderSubscription(username, planId, paymentDetails) ==
    /\ UNCHANGED <<adminSettings, bookings, orders, paths, now, verified,
                   pending>>
    /\ IF GetPlan(planId) = <<>>
       THEN /\ call' = [op |-> "updateProviderSubscription",
                        username |-> username, planId |-> planId,
                        paymentDetails |-> paymentDetails, failAt |-> "none"]
            /\ SubscriptionUnchanged(SubscriptionFailure("Plan not found"))
       ELSE IF GetProviderByUsername(username) = <<>>
       THEN /\ call' = [op |-> "updateProviderSubscription",
                        username |-> username, planId |-> planId,
                        paymentDetails |-> paymentDetails, failAt |-> "none"]
            /\ SubscriptionUnchanged(SubscriptionFailure("Provider not found"))
       ELSE LET plan     == GetPlan(planId)[1]
                provider == GetProviderByUsername(username)[1]
            IN  IF plan.duration = "trial" /\ HasUsedTrial(provider)
                THEN /\ call' = [op |-> "updateProviderSubscription",
                                 username |-> username, planId |-> planId,
                                 paymentDetails |-> paymentDetails,
                                 failAt |-> "none"]
                     /\ SubscriptionUnchanged(SubscriptionFailure(
                            "You have already used your trial plan. Please choose a paid plan."))
                ELSE \E failed \in SubscriptionFailPoints :
                        /\ call' = [op |-> "updateProviderSubscription",
                                    username |-> username, planId |-> planId,
                                    paymentDetails |-> paymentDetails,
                                    failAt |-> failed]
                        /\ ApplyPlan(username, provider, plan, paymentDetails,
                                     failed)

(* Time passes between requests.                                           *)
Tick ==
    /\ \E later \in Dates : DateBefore(now, later) /\ now' = later
    /\ UNCHANGED <<adminSettings, providers, bookings, orders, ledger,
                   notifications, emails, call, result, verified, paths,
                   applied, pending>>

----------------------------------------------------------------------------

Provider(username, online, later, calendar) ==
    LET base == [username |-> username,
                 name     |-> "Asha",
                 contact  |-> [email |-> ProviderEmail],
                 settings |-> [serviceTypes           |-> ServiceTypes,
                               onlinePaymentEnabled   |-> online,
                               payAfterServiceEnabled |-> later,
                               shopAddress            |-> "4 MG Road",
                               timezone               |-> "Asia/Kolkata"]]
    IN  IF calendar THEN Merge(base, [googleCalendar |-> [connected |-> TRUE]])
        ELSE base

Init ==
    /\ adminSettings \in {EmptyDoc, [keyId |-> KeyId, keySecret |-> KeySecret]}
    /\ \E online \in BOOLEAN, later \in BOOLEAN, calendar \in BOOLEAN :
          providers = [u \in Usernames |-> Provider(u, online, later, calendar)]
    /\ bookings = <<>>
    /\ orders = <<>>
    /\ ledger = <<>>
    /\ notifications = <<>>
    /\ emails = <<>>
    /\ call = [op |-> "none"]
    /\ result = [kind |-> "none"]
    /\ verified = {}
    /\ paths = <<>>
    /\ now = Today
    /\ applied = <<>>
    /\ pending = <<>>

NextSubscription ==
    \/ \E resp \in Responses : VerifySubscriptionPaymentSignature(resp)
    \/ \E req \in SubscriptionRequests :
          /\ Len(applied) < MaxApplications
          /\ UpdateProviderSubscription(req.username, req.planId,
                                        req.paymentDetails)
    \/ Tick

(* The subscription handlers read none of the booking switches.            *)
InitSubscription ==
    /\ Init
    /\ \A u \in Usernames :
          /\ providers[u].settings.onlinePaymentEnabled
          /\ providers[u].settings.payAfterServiceEnabled
          /\ Has(providers[u], "googleCalendar")

SpecSubscription == InitSubscription /\ [][NextSubscription]_vars

(* Subscription fields a provider may already hold when the first request  *)
(* arrives: none, or a monthly plan that runs until the end of the year.   *)
ExistingSubscriptions ==
    { EmptyDoc,
      [planId |-> "monthly", planExpiry |-> <<2024, 12, 20>>,
       hasUsedTrial |-> TRUE] }

(* Purchases that carry no amount: what is bought, and when, is all that   *)
(* the expiry and the trial flag depend on.                                *)
UnpaidDetails == [razorpay_payment_id |-> "", razorpay_order_id |-> ""]

InitRenewals ==
    /\ adminSettings = [keyId |-> KeyId, keySecret |-> KeySecret]
    /\ \E existing \in ExistingSubscriptions :
          providers = [u \in Usernames |->
                          Merge(Provider(u, TRUE, TRUE, TRUE), existing)]
    /\ bookings = <<>>
    /\ orders = <<>>
    /\ ledger = <<>>
    /\ notifications = <<>>
    /\ emails = <<>>
    /\ call = [op |-> "none"]
    /\ result = [kind |-> "none"]
    /\ verified = {}
    /\ paths = <<>>
    /\ now = Today
    /\ applied = <<>>
    /\ pending = <<>>

NextRenewals ==
    \/ \E username \in Usernames, planId \in PlanIds :
          /\ Len(applied) < MaxRenewals
          /\ UpdateProviderSubscription(username, planId, UnpaidDetails)
    \/ Tick

SpecRenewals == InitRenewals /\ [][NextRenewals]_vars

Next ==
    \/ \E form \in Forms : CreateBooking(form)
    \/ \E req \in VerifyRequests :
          /\ Len(ledger) < MaxLedger
          /\ VerifyBookingPayment(req.username, req.bookingId, req.resp,
                                  req.amount)

Spec == Init /\ [][Next]_vars

----------------------------------------------------------------------------
(* updateBlockedSlots, updateBlockedDates                                  *)

SlotISOs == {"2024-02-01T10:00", "2024-02-01T11:00"}

DayISOs == {"2024-02-10", "2024-02-11"}

(* The dates argument: any list of up to two days, repeats included.       *)
DateLists ==
    {<<>>} \cup {<<d>> : d \in DayISOs}
           \cup {<<d, e>> : d \in DayISOs, e \in DayISOs}

(* provider.settings.blockedSlots || []                                    *)
CurrentBlockedSlots(provider) ==
    IF Has(provider.settings, "blockedSlots")
    THEN provider.settings.blockedSlots ELSE <<>>

(* provider.settings.blockedDates || []                                    *)
CurrentBlockedDates(provider) ==
    IF Has(provider.settings, "blockedDates")
    THEN provider.settings.blockedDates ELSE <<>>

KeepDuplicates(seq) == seq

(* [...new Set(seq)]: the first occurrence of each element, in order.      *)
RECURSIVE UniqueInOrder(_)
UniqueInOrder(seq) ==
    IF seq = <<>> THEN <<>>
    ELSE LET front == UniqueInOrder(SubSeq(seq, 1, Len(seq) - 1))
             last  == seq[Len(seq)]
         IN  IF last \in Range(front) THEN front ELSE Append(front, last)

WithoutAnySlot(current, slotISO) == <<>>

(* currentBlockedSlots.filter(s => s !== slotISO)                          *)
WithoutSlot(current, slotISO) ==
    SelectSeq(current, LAMBDA s : s # slotISO)

(* currentBlockedDates.filter(d => !datesToUnblockSet.has(d))              *)
WithoutDates(current, dates) ==
    SelectSeq(current, LAMBDA d : d \notin Range(dates))

NewBlockedSlots(current, slotISO, shouldBlock) ==
    IF shouldBlock THEN Append(current, slotISO)
    ELSE WithoutSlot(current, slotISO)

NewBlockedDates(current, dates, shouldBlock) ==
    IF shouldBlock THEN UniqueInOrder(current \o dates)
    ELSE WithoutDates(current, dates)

UpdateProvider(username, update) ==
    [providers EXCEPT ![username] = Merge(@, update)]

(* The awaited collaborator call of the two handlers that fails, if any.   *)
BlockFailPoints == {"none", "updateProvider"}

(* The catch of lines 606-608 and 630-632.                                 *)
BlockFailure(message) ==
    [kind |-> "return", success |-> FALSE, error |-> message]

(* The settings write both handlers end with, and what they return.        *)
WriteSettings(username, settings, failAt) ==
    /\ providers' = IF failAt = "none"
                    THEN UpdateProvider(username, [settings |-> settings])
                    ELSE providers
    /\ result' = IF failAt = "none"
                 THEN [kind |-> "return", success |-> TRUE]
                 ELSE BlockFailure(failAt)

UpdateBlockedSlots(username, slotISO, shouldBlock) ==
    /\ UNCHANGED <<adminSettings, bookings, orders, ledger, notifications,
                   emails, verified, paths, now, applied, pending>>
    /\ IF GetProviderByUsername(username) = <<>>
       THEN /\ call' = [op |-> "updateBlockedSlots", username |-> username,
                        slotISO |-> slotISO, shouldBlock |-> shouldBlock,
                        failAt |-> "none"]
            /\ result' = BlockFailure("Provider not found")
            /\ UNCHANGED providers
       ELSE \E failAt \in BlockFailPoints :
               LET provider == GetProviderByUsername(username)[1]
                   newBlockedSlots ==
                       NewBlockedSlots(CurrentBlockedSlots(provider), slotISO,
                                       shouldBlock)
               IN  /\ call' = [op |-> "updateBlockedSlots",
                                username |-> username, slotISO |-> slotISO,
                                shouldBlock |-> shouldBlock, failAt |-> failAt]
                   /\ WriteSettings(username,
                          Merge(provider.settings,
                                [blockedSlots |-> newBlockedSlots]),
                          failAt)

UpdateBlockedDates(username, dates, shouldBlock) ==
    /\ UNCHANGED <<adminSettings, bookings, orders, ledger, notifications,
                   emails, verified, paths, now, applied, pending>>
    /\ IF GetProviderByUsername(username) = <<>>
       THEN /\ call' = [op |-> "updateBlockedDates", username |-> username,
                        dates |-> dates, shouldBlock |-> shouldBlock,
                        failAt |-> "none"]
            /\ result' = BlockFailure("Provider not found")
            /\ UNCHANGED providers
       ELSE \E failAt \in BlockFailPoints :
               LET provider == GetProviderByUsername(username)[1]
                   newBlockedDates ==
                       NewBlockedDates(CurrentBlockedDates(provider), dates,
                                       shouldBlock)
               IN  /\ call' = [op |-> "updateBlockedDates",
                                username |-> username, dates |-> dates,
                                shouldBlock |-> shouldBlock, failAt |-> failAt]
                   /\ WriteSettings(username,
                          Merge(provider.settings,
                                [blockedDates |-> newBlockedDates]),
                          failAt)

InitAvailability ==
    /\ InitSubscription
    /\ RazorpayConfigured

NextAvailability ==
    \/ \E username \in Usernames \cup {UnknownUsername},
          slotISO \in SlotISOs, shouldBlock \in BOOLEAN :
          /\ \A u \in DOMAIN providers :
                Len(CurrentBlockedSlots(providers[u])) < MaxBlockedSlots
          /\ UpdateBlockedSlots(username, slotISO, shouldBlock)
    \/ \E username \in Usernames \cup {UnknownUsername},
          dates \in DateLists, shouldBlock \in BOOLEAN :
          UpdateBlockedDates(username, dates, shouldBlock)

SpecAvailability == InitAvailability /\ [][NextAvailability]_vars

----------------------------------------------------------------------------
(* cancelBooking, rescheduleBooking                                        *)

NewDateTimes == {720}

UpdateBookingStatus(bks, bookingId, status) ==
    [bks EXCEPT ![bookingId] = Merge(@, [status |-> status])]

CancelPath == <<"updateBookingStatus", "sendBookingCancelledEmail">>

ReschedulePath ==
    <<"updateBooking", "sendRescheduleEmail", "sendProviderRescheduleEmail">>

(* The catch of lines 543-546 and 583-586.                                 *)
LifecycleFailure(message) ==
    [kind |-> "return", success |-> FALSE, error |-> message]

LifecycleEmail(template, to, bookingId, op) ==
    [template |-> template, to |-> to, bookingId |-> bookingId,
     by |-> [op |-> op, hmacMatched |-> FALSE]]

(* The caller passes the provider and the booking as it holds them.        *)
CancelBooking(provider, booking, bookingId) ==
    /\ UNCHANGED <<adminSettings, providers, orders, ledger, notifications,
                   verified, paths, now, applied, pending>>
    /\ \E failAt \in {"none"} \cup Range(CancelPath) :
          /\ call' = [op |-> "cancelBooking", username |-> provider.username,
                      bookingId |-> bookingId, failAt |-> failAt]
          /\ bookings' =
                IF Done(CancelPath, "updateBookingStatus", failAt)
                THEN UpdateBookingStatus(bookings, bookingId, "Canceled")
                ELSE bookings
          /\ emails' =
                IF Done(CancelPath, "sendBookingCancelledEmail", failAt)
                THEN Append(emails,
                            LifecycleEmail("bookingCancelled",
                                           booking.customerEmail, bookingId,
                                           "cancelBooking"))
                ELSE emails
          /\ result' = IF Completed(CancelPath, failAt)
                       THEN [kind |-> "return", success |-> TRUE]
                       ELSE LifecycleFailure(failAt)

RescheduleBooking(username, bookingId, newDateTime) ==
    /\ UNCHANGED <<adminSettings, providers, orders, ledger, notifications,
                   verified, paths, now, applied, pending>>
    /\ IF \/ GetProviderByUsername(username) = <<>>
          \/ GetBookingById(username, bookingId) = <<>>
       THEN /\ call' = [op |-> "rescheduleBooking", username |-> username,
                        bookingId |-> bookingId, newDateTime |-> newDateTime,
                        failAt |-> "none"]
            /\ result' = LifecycleFailure("Provider or booking not found.")
            /\ UNCHANGED <<bookings, emails>>
       ELSE \E failAt \in {"none"} \cup Range(ReschedulePath) :
               LET provider == GetProviderByUsername(username)[1]
                   booking  == GetBookingById(username, bookingId)[1]
               IN  /\ call' = [op |-> "rescheduleBooking",
                                username |-> username, bookingId |-> bookingId,
                                newDateTime |-> newDateTime, failAt |-> failAt]
                   /\ bookings' =
                         IF Done(ReschedulePath, "updateBooking", failAt)
                         THEN UpdateBooking(bookings, bookingId,
                                            [dateTime |-> newDateTime])
                         ELSE bookings
                   /\ emails' =
                         LET e1 == IF Done(ReschedulePath, "sendRescheduleEmail",
                                           failAt)
                                   THEN Append(emails,
                                            LifecycleEmail("reschedule",
                                                booking.customerEmail, bookingId,
                                                "rescheduleBooking"))
                                   ELSE emails
                         IN  IF Done(ReschedulePath,
                                     "sendProviderRescheduleEmail", failAt)
                             THEN Append(e1,
                                      LifecycleEmail("providerReschedule",
                                          provider.contact.email, bookingId,
                                          "rescheduleBooking"))
                             ELSE e1
                   /\ result' = IF Completed(ReschedulePath, failAt)
                                THEN [kind |-> "return", success |-> TRUE]
                                ELSE LifecycleFailure(failAt)

(* Submissions for the paid service, paid online or later.                 *)
LifecycleForms ==
    [ schemaValid      : {TRUE},
      providerUsername : Usernames,
      serviceType      : {"Consultation"},
      paymentMethod    : PaymentMethods,
      dateTime         : DateTimes ]

(* Verification requests that name the gateway's first order.              *)
LifecycleRequests ==
    {req \in VerifyRequests : req.resp.razorpay_order_id = "order_1"}

(* Keys configured, both payment switches on, no calendar connected.       *)
InitLifecycle ==
    /\ Init
    /\ RazorpayConfigured
    /\ \A u \in Usernames :
          /\ providers[u].settings.onlinePaymentEnabled
          /\ providers[u].settings.payAfterServiceEnabled
          /\ ~Has(providers[u], "googleCalendar")

NextLifecycle ==
    \/ \E form \in LifecycleForms : CreateBooking(form)
    \/ \E req \in LifecycleRequests :
          /\ Len(ledger) < MaxPayments
          /\ VerifyBookingPayment(req.username, req.bookingId, req.resp,
                                  req.amount)
    \/ \E username \in Usernames, bookingId \in 1..Len(bookings) :
          /\ Len(emails) < MaxEmails
          /\ CancelBooking(providers[username], bookings[bookingId], bookingId)
    \/ \E username \in Usernames \cup {UnknownUsername},
          bookingId \in 1..(Len(bookings) + 1), newDateTime \in NewDateTimes :
          /\ Len(emails) < MaxEmails
          /\ RescheduleBooking(username, bookingId, newDateTime)

SpecLifecycle == InitLifecycle /\ [][NextLifecycle]_vars

----------------------------------------------------------------------------
(* updateBlockedSlots and updateBlockedDates, overlapping: each invocation *)
(* awaits its read of the provider and, later, its write of the settings.  *)

RemoveAt(seq, i) == SubSeq(seq, 1, i - 1) \o SubSeq(seq, i + 1, Len(seq))

(* Lines 591-592: the read, and the return when there is no provider.      *)
BeginUpdateBlockedSlots(username, slotISO, shouldBlock) ==
    /\ UNCHANGED <<adminSettings, providers, bookings, orders, ledger,
                   notifications, emails, verified, paths, now, applied>>
    /\ IF GetProviderByUsername(username) = <<>>
       THEN /\ call' = [op |-> "updateBlockedSlots", username |-> username,
                        slotISO |-> slotISO, shouldBlock |-> shouldBlock,
                        failAt |-> "none"]
            /\ result' = BlockFailure("Provider not found")
            /\ UNCHANGED pending
       ELSE /\ pending' =
                  Append(pending,
                         [op |-> "updateBlockedSlots", username |-> username,
                          slotISO |-> slotISO, shouldBlock |-> shouldBlock,
                          provider |-> GetProviderByUsername(username)[1]])
            /\ UNCHANGED <<call, result>>

(* Lines 594-608: the new list from the provider that was read, the write  *)
(* of the full settings, the return.                                       *)
FinishUpdateBlockedSlots(i) ==
    /\ pending[i].op = "updateBlockedSlots"
    /\ UNCHANGED <<adminSettings, bookings, orders, ledger, notifications,
                   emails, verified, paths, now, applied>>
    /\ pending' = RemoveAt(pending, i)
    /\ \E failAt \in BlockFailPoints :
          LET inv      == pending[i]
              provider == inv.provider
              newBlockedSlots ==
                  NewBlockedSlots(CurrentBlockedSlots(provider), inv.slotISO,
                                  inv.shouldBlock)
          IN  /\ call' = [op |-> "updateBlockedSlots",
                           username |-> inv.username, slotISO |-> inv.slotISO,
                           shouldBlock |-> inv.shouldBlock, failAt |-> failAt]
              /\ WriteSettings(inv.username,
                     Merge(provider.settings,
                           [blockedSlots |-> newBlockedSlots]),
                     failAt)

(* Lines 614-615.                                                          *)
BeginUpdateBlockedDates(username, dates, shouldBlock) ==
    /\ UNCHANGED <<adminSettings, providers, bookings, orders, ledger,
                   notifications, emails, verified, paths, now, applied>>
    /\ IF GetProviderByUsername(username) = <<>>
       THEN /\ call' = [op |-> "updateBlockedDates", username |-> username,
                        dates |-> dates, shouldBlock |-> shouldBlock,
                        failAt |-> "none"]
            /\ result' = BlockFailure("Provider not found")
            /\ UNCHANGED pending
       ELSE /\ pending' =
                  Append(pending,
                         [op |-> "updateBlockedDates", username |-> username,
                          dates |-> dates, shouldBlock |-> shouldBlock,
                          provider |-> GetProviderByUsername(username)[1]])
            /\ UNCHANGED <<call, result>>

(* Lines 617-632.                                                          *)
FinishUpdateBlockedDates(i) ==
    /\ pending[i].op = "updateBlockedDates"
    /\ UNCHANGED <<adminSettings, bookings, orders, ledger, notifications,
                   emails, verified, paths, now, applied>>
    /\ pending' = RemoveAt(pending, i)
    /\ \E failAt \in BlockFailPoints :
          LET inv      == pending[i]
              provider == inv.provider
              newBlockedDates ==
                  NewBlockedDates(CurrentBlockedDates(provider), inv.dates,
                                  inv.shouldBlock)
          IN  /\ call' = [op |-> "updateBlockedDates",
                           username |-> inv.username, dates |-> inv.dates,
                           shouldBlock |-> inv.shouldBlock, failAt |-> failAt]
              /\ WriteSettings(inv.username,
                     Merge(provider.settings,
                           [blockedDates |-> newBlockedDates]),
                     failAt)

InitInterleaving == InitAvailability

(* The dates argument of the overlapping calls: one day.                   *)
OverlapDateLists == {<<d>> : d \in DayISOs}

(* Blocking calls only; at most MaxConcurrent invocations in flight.       *)
NextInterleaving ==
    \/ \E username \in Usernames \cup {UnknownUsername},
          slotISO \in SlotISOs :
          /\ Len(pending) < MaxConcurrent
          /\ \A u \in DOMAIN providers :
                Len(CurrentBlockedSlots(providers[u])) < MaxOverlapSlots
          /\ BeginUpdateBlockedSlots(username, slotISO, TRUE)
    \/ \E username \in Usernames \cup {UnknownUsername},
          dates \in OverlapDateLists :
          /\ Len(pending) < MaxConcurrent
          /\ BeginUpdateBlockedDates(username, dates, TRUE)
    \/ \E i \in 1..Len(pending) : FinishUpdateBlockedSlots(i)
    \/ \E i \in 1..Len(pending) : FinishUpdateBlockedDates(i)

SpecInterleaving == InitInterleaving /\ [][NextInterleaving]_vars

----------------------------------------------------------------------------
(* Vocabulary of the properties, read off the stored documents.            *)

Listed(provider, name) ==
    \E st \in Range(provider.settings.serviceTypes) : st.name = name

CatalogEntry(provider, name) ==
    CHOOSE st \in Range(provider.settings.serviceTypes) : st.name = name

ConfiguredPrice(st) == IF "price" \in DOMAIN st THEN st.price ELSE 0

(* A service the customer has to pay for.                                  *)
Charged(st) == st.priceEnabled /\ ConfiguredPrice(st) > 0

(* Schema passes, provider exists, service type listed and enabled.        *)
ValidSubmission(form) ==
    /\ form.schemaValid
    /\ form.providerUsername \in DOMAIN providers
    /\ Listed(providers[form.providerUsername], form.serviceType)
    /\ CatalogEntry(providers[form.providerUsername], form.serviceType).enabled

SubmittedService(form) ==
    CatalogEntry(providers[form.providerUsername], form.serviceType)

IsPaid(booking) ==
    /\ "payment" \in DOMAIN booking
    /\ "status" \in DOMAIN booking.payment
    /\ booking.payment.status = "Paid"

EntriesFor(log, bookingId, op) ==
    {i \in 1..Len(log) : /\ "bookingId" \in DOMAIN log[i]
                         /\ log[i].bookingId = bookingId
                         /\ log[i].by.op = op}

HasCalendarData(booking) ==
    \/ "googleCalendarEventId" \in DOMAIN booking
    \/ "googleMeetLink" \in DOMAIN booking

CalendarData(booking) ==
    [f \in DOMAIN booking \cap {"googleCalendarEventId", "googleMeetLink"} |->
        booking[f]]

----------------------------------------------------------------------------
(* C1: a booking whose payment status is Paid carries an order id and a    *)
(* payment id whose HMAC check matched in verifyBookingPayment, and no     *)
(* createBooking step makes a booking Paid.                                *)
PaidCarriesVerifiedPair ==
    \A i \in 1..Len(bookings) :
        IsPaid(bookings[i]) =>
            /\ "orderId" \in DOMAIN bookings[i].payment
            /\ "paymentId" \in DOMAIN bookings[i].payment
            /\ <<bookings[i].payment.orderId, bookings[i].payment.paymentId>>
                   \in verified

C1_PaidOnlyAfterSignatureCheck ==
    /\ []PaidCarriesVerifiedPair
    /\ [][ call'.op = "createBooking" =>
              \A i \in 1..Len(bookings') :
                  IsPaid(bookings'[i]) =>
                      i <= Len(bookings) /\ IsPaid(bookings[i]) ]_vars

C1_Witness ==
    /\ call.op = "verifyBookingPayment"
    /\ \E i \in 1..Len(bookings) : IsPaid(bookings[i])

(* C2: every ledger record was written after a signature check succeeded  *)
(* for its order id and payment id, and a tampered subscription callback   *)
(* is answered with the invalid-signature failure and adds no record.      *)
LedgerRecordsVerified ==
    \A i \in 1..Len(ledger) :
        <<ledger[i].razorpay_order_id, ledger[i].razorpay_payment_id>>
            \in verified

C2_LedgerOnlyAfterSignatureCheck ==
    /\ []LedgerRecordsVerified
    /\ [][ ( /\ call'.op = "verifySubscriptionPaymentSignature"
              /\ "keySecret" \in DOMAIN adminSettings
              /\ ~call'.hmacMatches )
            => ( /\ result' = [kind |-> "return", success |-> FALSE,
                               error |-> "Invalid payment signature."]
                 /\ ledger' = ledger ) ]_vars

(* C3: a callback whose signature differs from the recomputed HMAC returns *)
(* success false with the invalid-signature error and changes nothing in   *)
(* the store.                                                              *)
C3_MismatchChangesNothing ==
    [][ ( /\ call'.op = "verifyBookingPayment"
          /\ "keySecret" \in DOMAIN adminSettings
          /\ ~call'.hmacMatches )
        => ( /\ result' = [kind |-> "return", success |-> FALSE,
                           error |-> "Invalid payment signature."]
             /\ UNCHANGED <<bookings, ledger, notifications, emails, orders,
                            providers>> ) ]_vars

C3_Witness ==
    /\ call.op = "verifyBookingPayment"
    /\ "keySecret" \in DOMAIN adminSettings
    /\ ~call.hmacMatches
    /\ result.kind = "return"
    /\ Len(bookings) > 0

(* C4: a valid submission for a free service, or for a paid one the        *)
(* customer pays later, ends with the booking Upcoming, its payment        *)
(* Pending and the amount the configured price, 0 when none is configured. *)
C4_FreeOrDeferredIsUpcoming ==
    ( /\ call.op = "createBooking"
      /\ ValidSubmission(call.form)
      /\ \/ ~Charged(SubmittedService(call.form))
         \/ call.form.paymentMethod = "later"
      /\ call.failAt = "none" )
    => /\ result.kind = "redirect"
       /\ bookings[result.bookingId].status = "Upcoming"
       /\ bookings[result.bookingId].payment.status = "Pending"
       /\ bookings[result.bookingId].payment.amount =
              ConfiguredPrice(SubmittedService(call.form))

C4_Witness ==
    /\ call.op = "createBooking"
    /\ ValidSubmission(call.form)
    /\ ~Charged(SubmittedService(call.form))
    /\ result.kind = "redirect"
    /\ bookings[result.bookingId].payment.amount = 300

(* What C5 promises of a createBooking call that has returned.             *)
OrderAttached ==
    /\ result.kind = "order"
    /\ result.order \in Range(orders)
    /\ result.order.amount =
           ConfiguredPrice(SubmittedService(call.form)) * 100
    /\ result.order.currency = "INR"
    /\ bookings[result.bookingId].status = "Pending"
    /\ bookings[result.bookingId].payment.orderId = result.order.id

(* C5 as written: payment method online, price above 0 and online payment  *)
(* enabled give a Pending booking with a gateway order of price * 100 INR. *)
C5_AsWritten ==
    ( /\ call.op = "createBooking"
      /\ ValidSubmission(call.form)
      /\ call.form.paymentMethod = "online"
      /\ ConfiguredPrice(SubmittedService(call.form)) > 0
      /\ providers[call.form.providerUsername].settings.onlinePaymentEnabled
      /\ result.kind # "throw" )
    => OrderAttached

(* C5 amended: the same when the service's price is also switched on.      *)
C5_OnlineOrderAttached ==
    ( /\ call.op = "createBooking"
      /\ ValidSubmission(call.form)
      /\ call.form.paymentMethod = "online"
      /\ SubmittedService(call.form).priceEnabled
      /\ ConfiguredPrice(SubmittedService(call.form)) > 0
      /\ providers[call.form.providerUsername].settings.onlinePaymentEnabled
      /\ result.kind # "throw" )
    => OrderAttached

C5_Witness ==
    /\ call.op = "createBooking"
    /\ call.form.paymentMethod = "online"
    /\ result.kind = "order"
    /\ result.order.amount = 50000

(* C6: createBooking confirms a booking as Upcoming without an online      *)
(* payment only for a free service, or for a paid one whose provider       *)
(* allows paying after the service and whose customer chose to pay later.  *)
C6_UpcomingOnlyFreeOrPayLater ==
    ( /\ call.op = "createBooking"
      /\ result.kind = "redirect"
      /\ bookings[result.bookingId].status = "Upcoming" )
    => \/ ~Charged(SubmittedService(call.form))
       \/ /\ providers[call.form.providerUsername].settings.payAfterServiceEnabled
          /\ call.form.paymentMethod = "later"

(* C7: a request refused before persistence (schema failure, provider not  *)
(* found, service type unlisted or disabled) persists no booking, creates  *)
(* no order, adds no notification and sends no email; schema and service   *)
(* failures come back as field errors, a missing provider as an exception. *)
C7_RejectionHasNoEffect ==
    [][ ( call'.op = "createBooking" /\ ~ValidSubmission(call'.form) )
        => ( /\ UNCHANGED <<bookings, orders, ledger, notifications, emails,
                            providers>>
             /\ result' =
                   IF ~call'.form.schemaValid
                   THEN [kind |-> "errors", field |-> "schema"]
                   ELSE IF call'.form.providerUsername \notin DOMAIN providers
                   THEN [kind |-> "throw", at |-> "Provider not found."]
                   ELSE [kind |-> "errors", field |-> "serviceType"] ) ]_vars

C7_Witness ==
    /\ call.op = "createBooking"
    /\ call.form.schemaValid
    /\ call.form.serviceType = "Legacy"
    /\ result = [kind |-> "errors", field |-> "serviceType"]
    /\ bookings = <<>>

(* C8: createBooking on the online path adds no notification and sends no  *)
(* email; for such a booking they come only from a verifyBookingPayment    *)
(* call whose signature check succeeded; on the non-online path            *)
(* createBooking has produced all three when it redirects.                 *)
C8_ConfirmationsDeferredToVerification ==
    /\ \A i \in 1..Len(notifications) :
          LET n == notifications[i]
          IN  n.type = "new_booking" =>
                /\ paths[n.bookingId] = "online" =>
                      n.by.op = "verifyBookingPayment"
                /\ n.by.op = "verifyBookingPayment" => n.by.hmacMatched
    /\ \A i \in 1..Len(emails) :
          LET e == emails[i]
          IN  e.template \in {"bookingConfirmation",
                              "providerBookingNotification"} =>
                /\ paths[e.bookingId] = "online" =>
                      e.by.op = "verifyBookingPayment"
                /\ e.by.op = "verifyBookingPayment" => e.by.hmacMatched
    /\ (call.op = "createBooking" /\ result.kind = "order") =>
          /\ EntriesFor(notifications, result.bookingId, "createBooking") = {}
          /\ EntriesFor(emails, result.bookingId, "createBooking") = {}
    /\ (call.op = "createBooking" /\ result.kind = "redirect") =>
          /\ Cardinality(EntriesFor(notifications, result.bookingId,
                                    "createBooking")) = 1
          /\ {emails[i].template :
                 i \in EntriesFor(emails, result.bookingId, "createBooking")}
               = {"bookingConfirmation", "providerBookingNotification"}

C8_Witness ==
    /\ call.op = "verifyBookingPayment"
    /\ result = [kind |-> "return", success |-> TRUE]
    /\ paths[call.bookingId] = "online"
    /\ EntriesFor(notifications, call.bookingId, "verifyBookingPayment") # {}
    /\ Cardinality(EntriesFor(emails, call.bookingId, "verifyBookingPayment")) = 2

(* A step whose calendar call failed and whose other collaborators worked. *)
CalendarFailedInCreate ==
    /\ call'.op = "createBooking"
    /\ call'.cal = "throws"
    /\ call'.failAt = "none"

CalendarFailedInVerify ==
    /\ call'.op = "verifyBookingPayment"
    /\ call'.hmacMatches
    /\ call'.cal = "throws"
    /\ call'.failAt = "none"

C10_FailureAfterSignatureIsReturned ==
    ( call.op = "verifyBookingPayment" /\ call.hmacMatches )
    => /\ result.kind = "return"
       /\ ( \/ call.failAt # "none"
            \/ call.username \notin DOMAIN providers
            \/ call.bookingId \notin 1..Len(bookings) )
          => /\ result.success = FALSE
             /\ "error" \in DOMAIN result

C10_Witness ==
    /\ call.op = "verifyBookingPayment"
    /\ call.hmacMatches
    /\ call.failAt = "createPaymentRecord"
    /\ result.kind = "return"
    /\ result.success = FALSE
    /\ IsPaid(bookings[call.bookingId])

----------------------------------------------------------------------------
(* Vocabulary of the subscription properties.                              *)

(* The step is a handler call: time stands still while a handler runs,    *)
(* and moves in every other step.                                          *)
HandlerStep == now' = now

(* The step is an updateProviderSubscription call that returned success.   *)
SubscriptionSucceeded ==
    /\ HandlerStep
    /\ call'.op = "updateProviderSubscription"
    /\ result'.kind = "return"
    /\ result'.success

NotEarlier(a, b) ==
    \/ a = b
    \/ a[1] > b[1]
    \/ a[1] = b[1] /\ a[2] > b[2]
    \/ a[1] = b[1] /\ a[2] = b[2] /\ a[3] > b[3]

StoredExpiryKeptOrExtended(username) ==
    "planExpiry" \in DOMAIN providers[username] =>
        NotEarlier(providers'[username].planExpiry,
                   providers[username].planExpiry)

(* C11: the planExpiry stored after a successful updateProviderSubscription *)
(* call, whatever the plan bought, is never earlier than the planExpiry     *)
(* stored before it.                                                        *)
C11_ExpiryNeverShrinks ==
    [][ SubscriptionSucceeded => StoredExpiryKeptOrExtended(call'.username) ]_vars

(* The step renews, before it lapsed, the plan the provider holds.         *)
RenewsSamePlanBeforeLapse(username) ==
    /\ "planId" \in DOMAIN providers[username]
    /\ "planExpiry" \in DOMAIN providers[username]
    /\ call'.planId = providers[username].planId
    /\ NotEarlier(providers[username].planExpiry, now)
    /\ providers[username].planExpiry # now

(* C12: a successful renewal of the plan the provider holds, made before   *)
(* its expiry lapsed, writes an expiry that is not earlier than the one    *)
(* the previous renewal wrote.                                             *)
C12_RenewalsNonDecreasing ==
    [][ ( SubscriptionSucceeded /\ RenewsSamePlanBeforeLapse(call'.username) )
        => NotEarlier(providers'[call'.username].planExpiry,
                      providers[call'.username].planExpiry) ]_vars

C12_Witness ==
    /\ call.op = "updateProviderSubscription"
    /\ result.kind = "return"
    /\ result.success
    /\ applied = <<"monthly", "monthly", "monthly">>
    /\ providers[call.username].planExpiry = <<2024, 4, 15>>

(* The date the claim counts from: the expiry the provider holds when it   *)
(* has a plan whose expiry is still ahead, the current date otherwise.     *)
ExpectedBase(username) ==
    LET p == providers[username]
    IN  IF /\ "planId" \in DOMAIN p
           /\ "planExpiry" \in DOMAIN p
           /\ NotEarlier(p.planExpiry, now)
           /\ p.planExpiry # now
        THEN p.planExpiry
        ELSE now

ExpectedExpiry(plan, base) ==
    CASE plan.duration = "monthly"  -> AddMonths(base, 1)
      [] plan.duration = "yearly"   -> <<base[1] + 1, base[2],
                                         Min(base[3],
                                             DaysInMonth(base[1] + 1, base[2]))>>
      [] plan.duration = "lifetime" -> <<9999, 12, 31>>
      [] plan.duration = "trial"    ->
             AddDays(base, IF "days" \in DOMAIN plan THEN plan.days ELSE 7)

(* The expiry of a first purchase made on 2024-01-15, per plan.            *)
FirstPurchaseExpiry ==
    [ trial    |-> <<2024, 1, 22>>,
      trial14  |-> <<2024, 1, 29>>,
      monthly  |-> <<2024, 2, 15>>,
      yearly   |-> <<2025, 1, 15>>,
      lifetime |-> <<9999, 12, 31>> ]

(* C13: the expiry a call persists is counted from the existing expiry     *)
(* when the provider renews a plan that has not lapsed and from the        *)
(* current date otherwise: one month on for monthly, one year on for       *)
(* yearly, the plan's days (7 when unset) on for a trial, 9999-12-31 for   *)
(* lifetime; monthly bought on 2024-01-15 with no subscription gives       *)
(* 2024-02-15.                                                             *)
C13_ExpiryFromBaseDate ==
    [][ ( /\ HandlerStep
          /\ call'.op = "updateProviderSubscription"
          /\ applied' # applied )
        => LET u    == call'.username
               plan == Plans[call'.planId]
           IN  /\ providers'[u].planExpiry
                     = ExpectedExpiry(plan, ExpectedBase(u))
               /\ ( "planExpiry" \notin DOMAIN providers[u] /\ now = <<2024, 1, 15>> )
                     => providers'[u].planExpiry
                          = FirstPurchaseExpiry[call'.planId] ]_vars

C13_Witness ==
    /\ call.op = "updateProviderSubscription"
    /\ result.kind = "return"
    /\ result.success
    /\ applied = <<"monthly", "trial14">>
    /\ now = <<2024, 1, 31>>
    /\ providers[call.username].planExpiry = <<2024, 2, 29>>

TrialApplied ==
    \E i \in 1..Len(applied) : Plans[applied[i]].duration = "trial"

TrialFlagSet(provider) ==
    "hasUsedTrial" \in DOMAIN provider /\ provider.hasUsedTrial = TRUE

(* The step asks for a trial plan for a provider whose flag is set.        *)
AsksForSecondTrial ==
    /\ HandlerStep
    /\ call'.op = "updateProviderSubscription"
    /\ call'.planId \in DOMAIN Plans
    /\ Plans[call'.planId].duration = "trial"
    /\ call'.username \in DOMAIN providers
    /\ TrialFlagSet(providers[call'.username])

(* C14: once a trial plan has been applied hasUsedTrial is true in every   *)
(* later state, no call resets it, and a further trial request is answered *)
(* with success false and leaves planId, planExpiry and hasUsedTrial as    *)
(* they were.                                                              *)
C14_TrialUsedOnce ==
    /\ [](TrialApplied => \A u \in DOMAIN providers : TrialFlagSet(providers[u]))
    /\ [][ \A u \in DOMAIN providers :
              TrialFlagSet(providers[u]) => TrialFlagSet(providers'[u]) ]_vars
    /\ [][ AsksForSecondTrial =>
              /\ result'.kind = "return"
              /\ result'.success = FALSE
              /\ providers' = providers ]_vars

C14_Witness ==
    /\ call.op = "updateProviderSubscription"
    /\ call.planId = "trial14"
    /\ applied = <<"trial", "yearly">>
    /\ result.kind = "return"
    /\ result.success = FALSE
    /\ providers[call.username].planId = "yearly"
    /\ providers[call.username].hasUsedTrial

NonZeroAmount(details) ==
    "amount" \in DOMAIN details /\ details.amount # 0

BothIdsPresent(details) ==
    details.razorpay_payment_id # "" /\ details.razorpay_order_id # ""

(* The request passes the checks of lines 398-410.                         *)
PassesSubscriptionChecks(c) ==
    /\ c.planId \in DOMAIN Plans
    /\ c.username \in DOMAIN providers
    /\ ~( /\ Plans[c.planId].duration = "trial"
          /\ TrialFlagSet(providers[c.username]) )

SubscriptionStep ==
    HandlerStep /\ call'.op = "updateProviderSubscription"

(* C15: updateProviderSubscription appends a ledger record only when the   *)
(* amount is non-zero and both ids are present, a call that succeeds has   *)
(* appended one exactly in that case, and a zero or absent amount succeeds *)
(* without one.                                                            *)
C15_LedgerOnlyForPaidWithIds ==
    [][ SubscriptionStep =>
          LET details == call'.paymentDetails
              paid    == NonZeroAmount(details) /\ BothIdsPresent(details)
          IN  /\ ledger' # ledger =>
                    /\ paid
                    /\ Len(ledger') = Len(ledger) + 1
                    /\ ledger'[Len(ledger')].amount = details.amount
                    /\ ledger'[Len(ledger')].planId = call'.planId
                    /\ ledger'[Len(ledger')].razorpay_payment_id
                           = details.razorpay_payment_id
                    /\ ledger'[Len(ledger')].razorpay_order_id
                           = details.razorpay_order_id
              /\ (result'.kind = "return" /\ result'.success) =>
                    (ledger' # ledger <=> paid)
              /\ ( /\ ~NonZeroAmount(details)
                    /\ PassesSubscriptionChecks(call')
                    /\ call'.failAt = "none" ) =>
                    /\ result'.kind = "return"
                    /\ result'.success
                    /\ ledger' = ledger ]_vars

C15_Witness ==
    /\ call.op = "updateProviderSubscription"
    /\ result.kind = "return"
    /\ result.success
    /\ NonZeroAmount(call.paymentDetails)
    /\ call.paymentDetails.amount = 499
    /\ Len(ledger) = 1
    /\ ledger[1].planId = "yearly"

(* C20: updateProviderSubscription never throws, and a call with a         *)
(* positive amount and a missing payment id or order id returns success    *)
(* false with an error, adds no ledger record, notification or email, and  *)
(* leaves in the store the planId, planExpiry and hasUsedTrial it wrote.   *)
C20_NoRollbackOnMissingIds ==
    /\ [](call.op = "updateProviderSubscription" => result.kind = "return")
    /\ [][ ( /\ SubscriptionStep
              /\ NonZeroAmount(call'.paymentDetails)
              /\ call'.paymentDetails.amount > 0
              /\ ~BothIdsPresent(call'.paymentDetails)
              /\ PassesSubscriptionChecks(call')
              /\ call'.failAt = "none" )
            => LET u    == call'.username
                   plan == Plans[call'.planId]
               IN  /\ result' = [kind |-> "return", success |-> FALSE,
                                  error |-> "Payment details are required for paid plans."]
                   /\ ledger' = ledger
                   /\ notifications' = notifications
                   /\ emails' = emails
                   /\ {"planId", "planExpiry", "hasUsedTrial"}
                          \subseteq DOMAIN providers'[u]
                   /\ providers'[u].planId = plan.id
                   /\ providers'[u].planExpiry
                         = ExpectedExpiry(plan, ExpectedBase(u))
                   /\ providers'[u].hasUsedTrial
                         = ( TrialFlagSet(providers[u])
                               \/ plan.duration = "trial" ) ]_vars

C20_Witness ==
    /\ call.op = "updateProviderSubscription"
    /\ call.paymentDetails.razorpay_order_id = ""
    /\ call.paymentDetails.razorpay_payment_id = "pay_1"
    /\ result.kind = "return"
    /\ result.success = FALSE
    /\ call.username \in DOMAIN providers
    /\ "planId" \in DOMAIN providers[call.username]
    /\ providers[call.username].planId = "yearly"
    /\ providers[call.username].planExpiry = <<2025, 1, 31>>
    /\ ledger = <<>>
    /\ emails = <<>>

----------------------------------------------------------------------------
(* Vocabulary of the availability properties.                              *)

NoDuplicates(seq) ==
    \A i \in 1..Len(seq) : \A j \in 1..Len(seq) : seq[i] = seq[j] => i = j

StoredBlockedSlots(provider) ==
    IF "blockedSlots" \in DOMAIN provider.settings
    THEN provider.settings.blockedSlots ELSE <<>>

StoredBlockedDates(provider) ==
    IF "blockedDates" \in DOMAIN provider.settings
    THEN provider.settings.blockedDates ELSE <<>>

Elements(seq) == {seq[i] : i \in 1..Len(seq)}

(* The provider document is the same apart from the named setting.         *)
SameApartFrom(field, before, after) ==
    /\ DOMAIN after = DOMAIN before
    /\ \A f \in DOMAIN before \ {"settings"} : after[f] = before[f]
    /\ DOMAIN after.settings \ {field} = DOMAIN before.settings \ {field}
    /\ \A f \in DOMAIN before.settings \ {field} :
          after.settings[f] = before.settings[f]

(* C16: blockedSlots holds every slot at most once, and blocking a slot    *)
(* that is already blocked leaves the collection as it was.                *)
C16_BlockedSlotsDuplicateFree ==
    /\ [](\A u \in DOMAIN providers :
             NoDuplicates(StoredBlockedSlots(providers[u])))
    /\ [][ ( /\ call'.op = "updateBlockedSlots"
              /\ call'.username \in DOMAIN providers
              /\ call'.shouldBlock
              /\ call'.slotISO
                    \in Elements(StoredBlockedSlots(providers[call'.username])) )
            => StoredBlockedSlots(providers'[call'.username])
                 = StoredBlockedSlots(providers[call'.username]) ]_vars

(* C17: blockedDates holds every date at most once whatever lists the      *)
(* calls pass, and blocking only dates that are already blocked leaves     *)
(* the collection as it was.                                               *)
C17_BlockedDatesDuplicateFree ==
    /\ [](\A u \in DOMAIN providers :
             NoDuplicates(StoredBlockedDates(providers[u])))
    /\ [][ ( /\ call'.op = "updateBlockedDates"
              /\ call'.username \in DOMAIN providers
              /\ call'.shouldBlock
              /\ Elements(call'.dates)
                    \subseteq Elements(StoredBlockedDates(providers[call'.username])) )
            => StoredBlockedDates(providers'[call'.username])
                 = StoredBlockedDates(providers[call'.username]) ]_vars

C17_Witness ==
    /\ call.op = "updateBlockedDates"
    /\ call.shouldBlock
    /\ call.dates = <<"2024-02-11", "2024-02-11">>
    /\ result = [kind |-> "return", success |-> TRUE]
    /\ StoredBlockedDates(providers[call.username])
          = <<"2024-02-10", "2024-02-11">>

(* The step unblocks a slot, or dates, none of which is blocked.           *)
UnblocksAbsentSlot ==
    /\ call'.op = "updateBlockedSlots"
    /\ call'.username \in DOMAIN providers
    /\ ~call'.shouldBlock
    /\ call'.slotISO
          \notin Elements(StoredBlockedSlots(providers[call'.username]))

UnblocksAbsentDates ==
    /\ call'.op = "updateBlockedDates"
    /\ call'.username \in DOMAIN providers
    /\ ~call'.shouldBlock
    /\ Elements(call'.dates)
          \cap Elements(StoredBlockedDates(providers[call'.username])) = {}

(* C18: unblocking a slot, or a list of dates, none of which is blocked    *)
(* leaves the stored collection the same in content and order and leaves   *)
(* every other provider setting as it was.                                 *)
C18_UnblockAbsentChangesNothing ==
    [][ /\ UnblocksAbsentSlot =>
            LET u == call'.username
            IN  /\ StoredBlockedSlots(providers'[u])
                      = StoredBlockedSlots(providers[u])
                /\ SameApartFrom("blockedSlots", providers[u], providers'[u])
        /\ UnblocksAbsentDates =>
            LET u == call'.username
            IN  /\ StoredBlockedDates(providers'[u])
                      = StoredBlockedDates(providers[u])
                /\ SameApartFrom("blockedDates", providers[u], providers'[u])
      ]_vars

C18_Witness ==
    /\ call.op = "updateBlockedSlots"
    /\ ~call.shouldBlock
    /\ call.slotISO = "2024-02-01T11:00"
    /\ result = [kind |-> "return", success |-> TRUE]
    /\ StoredBlockedSlots(providers[call.username]) = <<"2024-02-01T10:00">>
    /\ StoredBlockedDates(providers[call.username]) = <<"2024-02-11">>

----------------------------------------------------------------------------
(* Vocabulary of the calendar-link property: how a calendar reads a stamp. *)

UtcOffsetMinutes(tzid) ==
    CASE tzid = "UTC"              -> 0
      [] tzid = "Asia/Kolkata"     -> 330
      [] tzid = "America/New_York" -> 0 - 300

(* A reading that ends in Z is a UTC reading.                              *)
InstantOfUtcStamp(stamp) == stamp.wallClock

(* A reading tagged with TZID is a local reading in that zone.             *)
InstantOfZonedStamp(zoned) ==
    zoned.value.wallClock - UtcOffsetMinutes(zoned.tzid)

LinksAgree(email, booking, minutes) ==
    LET gStart == InstantOfUtcStamp(email.googleLink.dates[1])
        gEnd   == InstantOfUtcStamp(email.googleLink.dates[2])
        oStart == InstantOfUtcStamp(email.outlookLink.startdt)
        oEnd   == InstantOfUtcStamp(email.outlookLink.enddt)
        iStart == InstantOfZonedStamp(email.icsLink.dtstart)
        iEnd   == InstantOfZonedStamp(email.icsLink.dtend)
    IN  /\ gStart = booking.dateTime
        /\ oStart = gStart
        /\ iStart = gStart
        /\ gEnd = gStart + minutes
        /\ oEnd = gEnd
        /\ iEnd = gEnd

(* C19: the Google link, the Outlook link and the .ics document of every   *)
(* confirmation email encode the booking's start instant and the same end  *)
(* instant, slotDuration minutes later (60 when slotDuration is unset).    *)
C19_CalendarLinksAgree ==
    \A i \in 1..Len(emails) :
        emails[i].template = "bookingConfirmation" =>
            LET booking  == bookings[emails[i].bookingId]
                settings == providers[booking.providerUsername].settings
            IN  LinksAgree(emails[i], booking,
                           IF "slotDuration" \in DOMAIN settings
                           THEN settings.slotDuration ELSE 60)

----------------------------------------------------------------------------
(* Cancellation, the order behind a payment, the payment ledger.           *)

HasStatus(booking, status) ==
    /\ "status" \in DOMAIN booking
    /\ booking.status = status

(* C21: a booking whose status cancelBooking has set to Canceled is never  *)
(* moved back to Upcoming or Pending by any later operation.               *)
C21_CanceledStaysCanceled ==
    [][ \A i \in 1..Len(bookings) :
            HasStatus(bookings[i], "Canceled") =>
                /\ ~HasStatus(bookings'[i], "Upcoming")
                /\ ~HasStatus(bookings'[i], "Pending") ]_vars

HasOrderAttached(booking) ==
    /\ "payment" \in DOMAIN booking
    /\ "orderId" \in DOMAIN booking.payment

(* C22: whenever a booking's payment status becomes Paid, the booking had  *)
(* a gateway order attached by createBooking and the order id recorded     *)
(* with the payment equals that order id.                                  *)
C22_PaidWithAttachedOrder ==
    [][ \A i \in 1..Len(bookings) :
            (~IsPaid(bookings[i]) /\ IsPaid(bookings'[i])) =>
                /\ HasOrderAttached(bookings[i])
                /\ bookings'[i].payment.orderId
                       = bookings[i].payment.orderId ]_vars

BookingLedgerRecords(username, bookingId) ==
    {i \in 1..Len(ledger) :
        /\ ledger[i].planId = "booking"
        /\ ledger[i].providerUsername = username
        /\ ledger[i].bookingId = bookingId}

(* C23: for each booking at most one ledger record with planId 'booking'   *)
(* is ever created, however often verifyBookingPayment is invoked with a   *)
(* valid signature for it.                                                 *)
C23_OneLedgerRecordPerBooking ==
    \A i \in 1..Len(ledger) :
        ledger[i].planId = "booking" =>
            Cardinality(BookingLedgerRecords(ledger[i].providerUsername,
                                             ledger[i].bookingId)) <= 1

----------------------------------------------------------------------------
(* Overlapping availability updates.                                       *)

SlotBlockReturnedSuccess ==
    /\ Len(pending') < Len(pending)
    /\ call'.op = "updateBlockedSlots"
    /\ call'.shouldBlock
    /\ result' = [kind |-> "return", success |-> TRUE]

(* C24: when blocking calls overlap, a slot-blocking call that returns     *)
(* success leaves every slot blocked so far in blockedSlots next to its    *)
(* own and does not overwrite blockedDates, so that both slots of two      *)
(* overlapping calls are present once both have returned success.          *)
C24_OverlappingUpdatesKept ==
    [][ SlotBlockReturnedSuccess =>
            LET before == providers[call'.username]
                after  == providers'[call'.username]
            IN  /\ Elements(StoredBlockedSlots(before)) \cup {call'.slotISO}
                      \subseteq Elements(StoredBlockedSlots(after))
                /\ StoredBlockedDates(after) = StoredBlockedDates(before)
      ]_vars

====
